---- MODULE Spec2Model ----
(***************************************************************************)
(* Storefront front-end: the cart with optimistic line updates             *)
(* (components/Cart: CartDetails, CartLineItem, CartLineQuantityAdjust,    *)
(* ItemRemoveButton, UpdateDiscountForm) and the collection page           *)
(* (routes/($locale).collections.$collectionHandle: loader, pagination).   *)
(*                                                                         *)
(* Every CartForm owns one fetcher.  A submitted fetcher carries its form  *)
(* data (the OptimisticInput fields included) from the submission until    *)
(* the revalidated cart has landed; useOptimisticData(id) merges, with     *)
(* Object.assign and in the order of the router's fetcher map, the         *)
(* optimistic data of all fetchers in flight whose identifier is id.       *)
(***************************************************************************)
EXTENDS Integers, Sequences, FiniteSets, TLC

\* ------------------------------------------------------------------ bounds
MaxQty == 3
MaxSubmits == 3

\* ------------------------------------------------------------------- cart
Lines == {"L1", "L2"}
QtyForms == {"dec", "inc"}
LineForms == {"dec", "inc", "remove"}
\* one fetcher per CartForm: three per cart line, two in CartDiscounts
DiscountForms == {"discountRemove", "discountApply"}
Keys == (Lines \X LineForms) \cup ({"cart"} \X DiscountForms)

VARIABLES
  sLines,      \* cart authority: quantity of each line, 0 = line not in cart
  sCodes,      \* cart authority: a discount code is applied
  cart,        \* last authoritative snapshot held by the client
  fetchers,    \* Keys -> fetcher (state, form data)
  order,       \* keys of the fetchers in flight, in fetcher-map order
  loads,       \* keys of the fetchers revalidating, in load-id order
  zombies,     \* aborted submissions the authority may still apply
  recent,      \* per line: the form of the most recent proposal
  olderDone,   \* per line: another mutation completed after that proposal
  nsub         \* submissions so far

VARIABLES
  rLine,       \* CartLineItem as a function: line.quantity
  rData,       \* CartLineItem as a function: the optimistic data of the line
  rOut         \* what CartLineItem rendered for (rLine, rData)

VARIABLES
  url,         \* committed location of the collection page
  conn,        \* product connection the Pagination component holds
  nav,         \* navigation in flight
  inView,      \* useInView: the NextLink is in the viewport
  lastQuery,   \* variables of the last catalog query, what triggered it,
               \* and a bit that flips with every query issued
  current      \* filters and sort the visitor asked for last, and whether
               \* that change superseded a page request in flight

VARIABLES
  lHandle,     \* loader as a function: params.collectionHandle
  lParams,     \* loader as a function: entries of request.url searchParams
  lSort,       \* loader as a function: the sort parameter of the URL
  lFacets,     \* loader as a function: filter values the collection declares
  lOut         \* what the loader returned for (lParams, lSort, lFacets)

VARIABLES
  pHandle,       \* product loader as a function: params.productHandle
  pProduct,      \* the variants of the product, in declaration order
  pSelection,    \* the selected options of the request URL
  pRecommended,  \* ids of products.recommended
  pAdditional,   \* ids of products.additional.nodes
  pOut           \* what the product loader returned

VARIABLES
  cLoader,     \* locale check: the loader, of the home or all-products page
  cLocale,     \* params.locale as characters, <<>> when there is none
  cI18n,       \* context.storefront.i18n
  cOut         \* what the loader returned

VARIABLES
  hFetchers,    \* state of the fetcher of every cart form on the page
  addDisabled,  \* the disabled prop of every add-to-cart button
  addRequests,  \* add-to-cart requests sent by a button and not yet answered
  isCartOpen    \* useDrawer() of the cart drawer: isOpen

VARIABLES
  sMounts,     \* number of SheckleMan instances mounted so far
  sMounted,    \* the instance now mounted, 0 when none is
  sInst        \* per instance: its pending timer, isVisible, hasAppeared

cartVars == <<sLines, sCodes, cart, fetchers, order, loads, zombies,
              recent, olderDone, nsub>>
renderVars == <<rLine, rData, rOut>>
pagerVars == <<url, conn, nav, inView, lastQuery, current>>
productVars == <<pHandle, pProduct, pSelection, pRecommended, pAdditional,
                 pOut>>
localeVars == <<cLoader, cLocale, cI18n, cOut>>
loaderVars == <<lHandle, lParams, lSort, lFacets, lOut, productVars,
                localeVars>>
addVars == <<hFetchers, addDisabled, addRequests, isCartOpen>>
sheckleVars == <<sMounts, sMounted, sInst>>
layoutVars == <<addVars, sheckleVars>>
vars == <<cartVars, renderVars, pagerVars, loaderVars, layoutVars>>
\* what the cart operations leave alone
notCart == <<renderVars, pagerVars, loaderVars, layoutVars>>

\* OptimisticData = {action?: string; quantity?: number}
NoData == [action |-> "none", hasQuantity |-> FALSE, quantity |-> 0]
QuantityData(q) == [action |-> "none", hasQuantity |-> TRUE, quantity |-> q]
RemoveData == [action |-> "remove", hasQuantity |-> FALSE, quantity |-> 0]

IdleFetcher ==
  [state |-> "idle", data |-> NoData, codes |-> FALSE, failed |-> FALSE,
   pre |-> 0]

InFlight(fs, k) == fs[k].state # "idle"

\* line cost and cart cost as the authority computes them
UnitPrice(l) == IF l = "L1" THEN 2 ELSE 3

RECURSIVE SumCost(_, _)
SumCost(qs, ls) ==
  IF ls = {} THEN 0
  ELSE LET l == CHOOSE x \in ls : TRUE
       IN qs[l] * UnitPrice(l) + SumCost(qs, ls \ {l})

\* the cart the /cart route returns after a mutation or a revalidation
Snapshot(qs, codes) ==
  [lines |-> qs,
   lineCost |-> [l \in Lines |-> qs[l] * UnitPrice(l)],
   subtotal |-> SumCost(qs, Lines),
   discountCodes |-> codes]

\* Object.assign(data, dataInForm)
ObjectAssign(data, d) ==
  [action |-> IF d.action # "none" THEN d.action ELSE data.action,
   hasQuantity |-> data.hasQuantity \/ d.hasQuantity,
   quantity |-> IF d.hasQuantity THEN d.quantity ELSE data.quantity]

RECURSIVE MergeData(_, _, _, _)
MergeData(fs, ord, id, data) ==
  IF ord = <<>> THEN data
  ELSE MergeData(fs, Tail(ord), id,
                 IF Head(ord)[1] = id
                 THEN ObjectAssign(data, fs[Head(ord)].data)
                 ELSE data)

\* mutation: the optimistic data of every fetcher, whatever its identifier
RECURSIVE MergeAnyId(_, _, _)
MergeAnyId(fs, ord, data) ==
  IF ord = <<>> THEN data
  ELSE MergeAnyId(fs, Tail(ord), ObjectAssign(data, fs[Head(ord)].data))

useOptimisticDataAnyId(fs, ord, id) == MergeAnyId(fs, ord, NoData)

\* useOptimisticData<OptimisticData>(line.id)
useOptimisticData(fs, ord, id) == MergeData(fs, ord, id, NoData)

\* CartLines renders one CartLineItem per line of the snapshot
InCart(c, l) == c.lines[l] > 0

\* mutation: the line is hidden while any optimistic data is pending
CartLineItemDisplayAnyData(d) == IF d # NoData THEN "none" ELSE "flex"

\* CartLineItem: display: optimisticData?.action === 'remove' ? 'none' : 'flex'
CartLineItemDisplay(d) == IF d.action = "remove" THEN "none" ELSE "flex"

DisplayNone(fs, ord, l) ==
  CartLineItemDisplay(useOptimisticData(fs, ord, l)) = "none"

Displayed(c, fs, ord, l) == InCart(c, l) /\ ~DisplayNone(fs, ord, l)

\* mutation: line.quantity || optimisticData?.quantity
OptimisticQuantityLineFirst(d, lineQuantity) ==
  IF lineQuantity # 0 THEN lineQuantity ELSE d.quantity

\* CartLineQuantityAdjust: optimisticData?.quantity || line.quantity
OptimisticQuantityOf(d, lineQuantity) ==
  IF d.hasQuantity /\ d.quantity # 0 THEN d.quantity ELSE lineQuantity

optimisticQuantity(c, fs, ord, l) ==
  OptimisticQuantityOf(useOptimisticData(fs, ord, l), c.lines[l])

Max(a, b) == IF a >= b THEN a ELSE b

prevQuantity(q) == Max(0, q - 1)
nextQuantity(q) == q + 1

\* mutation: disabled={optimisticQuantity <= 0}
DecreaseDisabledAtZero(q) == q <= 0

\* disabled={optimisticQuantity <= 1}
DecreaseDisabled(q) == q <= 1

\* CartSummary, CartDiscounts, CartLinePrice
RenderedSubtotal(c) == c.subtotal
RenderedCodes(c) == c.discountCodes
RenderedLinePrice(c, l) == c.lineCost[l]

\* what the list shows for a line: shown or not, and the quantity if shown
RenderedLine(c, fs, ord, l) ==
  IF Displayed(c, fs, ord, l)
  THEN [shown |-> TRUE, quantity |-> optimisticQuantity(c, fs, ord, l)]
  ELSE [shown |-> FALSE, quantity |-> 0]

PendingOn(fs, l) == {f \in LineForms : InFlight(fs, <<l, f>>)}

Remove(seq, S) == SelectSeq(seq, LAMBDA k : k \notin S)

\* keys of loads up to and including k
RECURSIVE UpTo(_, _)
UpTo(seq, k) ==
  IF seq = <<>> THEN {}
  ELSE IF Head(seq) = k THEN {k} ELSE {Head(seq)} \cup UpTo(Tail(seq), k)

\* ------------------------------------------------------------ cart: Init
\* a cart holding one line at quantity 1 (decrease control disabled) and one
\* line at quantity 2 (both quantity controls enabled); nothing in flight
CartInit ==
  /\ sLines = [l \in Lines |-> IF l = "L1" THEN 1 ELSE 2]
  /\ sCodes = FALSE
  /\ cart = Snapshot(sLines, sCodes)
  /\ fetchers = [k \in Keys |-> IdleFetcher]
  /\ order = <<>>
  /\ loads = <<>>
  /\ zombies = {}
  /\ recent = [l \in Lines |-> "none"]
  /\ olderDone = [l \in Lines |-> FALSE]
  /\ nsub = 0

\* the cart authority applies a mutation
ApplyMutation(qs, k, data) ==
  IF k[1] \notin Lines \/ qs[k[1]] = 0 THEN qs
  ELSE IF k[2] = "remove" THEN [qs EXCEPT ![k[1]] = 0]
  ELSE [qs EXCEPT ![k[1]] = data.quantity]

ApplyCodes(codes, k, target) ==
  IF k[1] \in Lines THEN codes ELSE target

\* mutation: the submission also writes its intent into the cached cart
SubmitFormPatchesCart(k, data, codes) ==
  LET old == fetchers[k]
      new == [state |-> "submitting", data |-> data, codes |-> codes,
              failed |-> FALSE,
              pre |-> IF k[1] \in Lines THEN cart.lines[k[1]] ELSE 0]
  IN /\ nsub < MaxSubmits
     /\ nsub' = nsub + 1
     /\ fetchers' = [fetchers EXCEPT ![k] = new]
     /\ order' = IF InFlight(fetchers, k) THEN order ELSE Append(order, k)
     /\ loads' = Remove(loads, {k})
     /\ \/ zombies' = zombies
        \/ /\ old.state = "submitting"
           /\ zombies' = zombies \cup
                           {[key |-> k, data |-> old.data, codes |-> old.codes]}
     /\ recent' = IF k[1] \in Lines THEN [recent EXCEPT ![k[1]] = k[2]]
                  ELSE recent
     /\ olderDone' = IF k[1] \in Lines THEN [olderDone EXCEPT ![k[1]] = FALSE]
                     ELSE olderDone
     /\ cart' = Snapshot(ApplyMutation(cart.lines, k, data),
                         cart.discountCodes)
     /\ UNCHANGED <<sLines, sCodes, notCart>>

\* fetcher.submit of the CartForm with key k: a fetcher already in flight is
\* aborted and replaced in place; the aborted request may have left already
SubmitForm(k, data, codes) ==
  LET old == fetchers[k]
      new == [state |-> "submitting", data |-> data, codes |-> codes,
              failed |-> FALSE,
              pre |-> IF k[1] \in Lines THEN cart.lines[k[1]] ELSE 0]
  IN /\ nsub < MaxSubmits
     /\ nsub' = nsub + 1
     /\ fetchers' = [fetchers EXCEPT ![k] = new]
     /\ order' = IF InFlight(fetchers, k) THEN order ELSE Append(order, k)
     /\ loads' = Remove(loads, {k})
     /\ \/ zombies' = zombies
        \/ /\ old.state = "submitting"
           /\ zombies' = zombies \cup
                           {[key |-> k, data |-> old.data, codes |-> old.codes]}
     /\ recent' = IF k[1] \in Lines THEN [recent EXCEPT ![k[1]] = k[2]]
                  ELSE recent
     /\ olderDone' = IF k[1] \in Lines THEN [olderDone EXCEPT ![k[1]] = FALSE]
                     ELSE olderDone
     /\ UNCHANGED <<sLines, sCodes, cart, notCart>>

\* CartLineQuantityAdjust, "decrease-quantity" button
DecreaseQuantity(l) ==
  LET q == optimisticQuantity(cart, fetchers, order, l)
  IN /\ Displayed(cart, fetchers, order, l)
     /\ ~DecreaseDisabled(q)
     /\ SubmitForm(<<l, "dec">>, QuantityData(prevQuantity(q)), FALSE)

\* mutation: the proposal is computed from line.quantity
IncreaseQuantityFromLine(l) ==
  LET q == cart.lines[l]
  IN /\ Displayed(cart, fetchers, order, l)
     /\ q < MaxQty
     /\ SubmitForm(<<l, "inc">>, QuantityData(nextQuantity(q)), FALSE)

\* CartLineQuantityAdjust, "increase-quantity" button
IncreaseQuantity(l) ==
  LET q == optimisticQuantity(cart, fetchers, order, l)
  IN /\ Displayed(cart, fetchers, order, l)
     /\ q < MaxQty
     /\ SubmitForm(<<l, "inc">>, QuantityData(nextQuantity(q)), FALSE)

\* ItemRemoveButton
RemoveItem(l) ==
  /\ Displayed(cart, fetchers, order, l)
  /\ SubmitForm(<<l, "remove">>, RemoveData, FALSE)

\* CartDiscounts: the remove form is shown while a code is applied
RemoveDiscount ==
  /\ RenderedCodes(cart)
  /\ SubmitForm(<<"cart", "discountRemove">>, NoData, FALSE)

\* CartDiscounts: the apply form is always shown
ApplyDiscount ==
  /\ fetchers[<<"cart", "discountApply">>].state \in
       {"idle", "submitting", "loading"}
  /\ SubmitForm(<<"cart", "discountApply">>, NoData, TRUE)

\* the action response of fetcher k arrives: the mutation was applied and
\* the fetcher starts revalidating the cart with the next load id
ActionSucceeds(k) ==
  /\ fetchers[k].state = "submitting"
  /\ sLines' = ApplyMutation(sLines, k, fetchers[k].data)
  /\ sCodes' = ApplyCodes(sCodes, k, fetchers[k].codes)
  /\ fetchers' = [fetchers EXCEPT ![k].state = "loading"]
  /\ loads' = Append(loads, k)
  /\ UNCHANGED <<cart, order, zombies, recent, olderDone, nsub, notCart>>

\* the cart authority reports failure for the mutation of fetcher k
ActionFails(k) ==
  /\ fetchers[k].state = "submitting"
  /\ fetchers' = [fetchers EXCEPT ![k].state = "loading", ![k].failed = TRUE]
  /\ loads' = Append(loads, k)
  /\ UNCHANGED <<sLines, sCodes, cart, order, zombies, recent, olderDone,
                 nsub, notCart>>

\* an aborted submission reaches the authority after all
Submissions ==
  [key : Keys, data : {NoData, RemoveData} \cup {QuantityData(q) : q \in 1..MaxQty},
   codes : BOOLEAN]

ZombieApplied(z) ==
  /\ z \in zombies
  /\ sLines' = ApplyMutation(sLines, z.key, z.data)
  /\ sCodes' = ApplyCodes(sCodes, z.key, z.codes)
  /\ zombies' = zombies \ {z}
  /\ UNCHANGED <<cart, fetchers, order, loads, recent, olderDone, nsub,
                 notCart>>

\* the revalidation of fetcher k lands: the snapshot replaces the cart, the
\* fetcher is done, and so is every fetcher revalidating with an older load id
Completed(k) == UpTo(loads, k)

Land(k) ==
  LET done == Completed(k)
      fs == [x \in Keys |-> IF x \in done THEN IdleFetcher ELSE fetchers[x]]
  IN /\ fetchers[k].state = "loading"
     /\ cart' = Snapshot(sLines, sCodes)
     /\ fetchers' = fs
     /\ order' = Remove(order, done)
     /\ loads' = Remove(loads, done)
     /\ olderDone' =
          [l \in Lines |->
             \/ /\ olderDone[l]
                /\ recent[l] # "none" /\ InFlight(fs, <<l, recent[l]>>)
             \/ /\ recent[l] # "none" /\ InFlight(fs, <<l, recent[l]>>)
                /\ \E x \in done : x[1] = l]
     /\ UNCHANGED <<sLines, sCodes, zombies, recent, nsub, notCart>>

CartNext ==
  \/ \E l \in Lines : DecreaseQuantity(l)
  \/ \E l \in Lines : IncreaseQuantity(l)
  \/ \E l \in Lines : RemoveItem(l)
  \/ RemoveDiscount
  \/ ApplyDiscount
  \/ \E k \in Keys : ActionSucceeds(k)
  \/ \E k \in Keys : ActionFails(k)
  \/ \E z \in Submissions : ZombieApplied(z)
  \/ \E k \in Keys : Land(k)


\* ------------------------------------------- CartLineItem as a function
MaxRenderQty == 6

OptimisticDataSet ==
  [action : {"none", "remove"}, hasQuantity : {FALSE}, quantity : {0}]
    \cup [action : {"none", "remove"}, hasQuantity : {TRUE},
          quantity : 0..MaxRenderQty]

NotRendered == [display |-> "unrendered", quantity |-> 0]

\* CartLineItem with CartLineQuantityAdjust: the display style of the <li>
\* and the number in the item-quantity cell
RenderCartLine ==
  /\ rOut = NotRendered
  /\ rOut' = [display |-> CartLineItemDisplay(rData),
              quantity |-> OptimisticQuantityOf(rData, rLine)]
  /\ UNCHANGED <<rLine, rData, cartVars, pagerVars, loaderVars, layoutVars>>

\* ------------------------------------------------------ collection page
MaxPages == 3

FilterIds == {"color", "price"}
SortOptions ==
  {"price-high-low", "price-low-high", "best-selling", "newest", "featured"}
SortParams == SortOptions \cup {"none"}

NoCursor == [ctx |-> <<>>, page |-> 0]

\* mutation: 'newest' sorts oldest first
getSortValuesFromParamOldest(sortParam) ==
  CASE sortParam = "price-high-low" -> [sortKey |-> "PRICE", reverse |-> TRUE]
    [] sortParam = "price-low-high" -> [sortKey |-> "PRICE", reverse |-> FALSE]
    [] sortParam = "best-selling" ->
         [sortKey |-> "BEST_SELLING", reverse |-> FALSE]
    [] sortParam = "newest" -> [sortKey |-> "CREATED", reverse |-> FALSE]
    [] sortParam = "featured" -> [sortKey |-> "MANUAL", reverse |-> FALSE]
    [] OTHER -> [sortKey |-> "RELEVANCE", reverse |-> FALSE]

getSortValuesFromParam(sortParam) ==
  CASE sortParam = "price-high-low" -> [sortKey |-> "PRICE", reverse |-> TRUE]
    [] sortParam = "price-low-high" -> [sortKey |-> "PRICE", reverse |-> FALSE]
    [] sortParam = "best-selling" ->
         [sortKey |-> "BEST_SELLING", reverse |-> FALSE]
    [] sortParam = "newest" -> [sortKey |-> "CREATED", reverse |-> TRUE]
    [] sortParam = "featured" -> [sortKey |-> "MANUAL", reverse |-> FALSE]
    [] OTHER -> [sortKey |-> "RELEVANCE", reverse |-> FALSE]

\* getPaginationVariables(request): the cursor and direction of the URL
getPaginationVariables(u) ==
  IF u.direction = "previous"
  THEN [startCursor |-> u.cursor, endCursor |-> NoCursor]
  ELSE [startCursor |-> NoCursor, endCursor |-> u.cursor]

\* loader: the variables of COLLECTION_QUERY for the request URL u
loader(u) ==
  LET sv == getSortValuesFromParam(u.sort)
      pv == getPaginationVariables(u)
  IN [filters |-> u.filters, sortKey |-> sv.sortKey, reverse |-> sv.reverse,
      startCursor |-> pv.startCursor, endCursor |-> pv.endCursor]

\* the filter/sort context a query runs in, and a cursor belongs to
Context(q) == <<q.filters, q.sortKey, q.reverse>>

\* the catalog: the page a query returns, of MaxPages pages per context
CatalogPage(q) ==
  IF q.endCursor # NoCursor THEN q.endCursor.page + 1
  ELSE IF q.startCursor # NoCursor THEN q.startCursor.page - 1
  ELSE 1

\* Pagination: hasNextPage, hasPreviousPage, nextPageUrl, previousPageUrl
hasNextPage == conn.hi < MaxPages
hasPreviousPage == conn.lo > 1
nextPageUrl ==
  [url EXCEPT !.cursor = [ctx |-> conn.ctx, page |-> conn.hi],
              !.direction = "next"]
previousPageUrl ==
  [url EXCEPT !.cursor = [ctx |-> conn.ctx, page |-> conn.lo],
              !.direction = "previous"]

\* mutation: the filter link keeps the pagination parameters of the URL
FilterLinkKeepsCursor(u, f) ==
  [filters |-> IF f \in u.filters THEN u.filters \ {f}
               ELSE u.filters \cup {f},
   sort |-> u.sort, cursor |-> u.cursor, direction |-> u.direction]

\* SortFilter: the link of a filter toggle and of a sort option
FilterLink(u, f) ==
  [filters |-> IF f \in u.filters THEN u.filters \ {f}
               ELSE u.filters \cup {f},
   sort |-> u.sort, cursor |-> NoCursor, direction |-> "none"]
SortLink(u, sort) ==
  [filters |-> u.filters, sort |-> sort, cursor |-> NoCursor,
   direction |-> "none"]

NoNav == [to |-> "none"]

\* a request for a further page of the list is in flight
PageRequestInFlight == nav # NoNav /\ nav.keepState

\* the visitor chooses the filters and the sort of location u
Choose(u) ==
  current' = [filters |-> u.filters, sort |-> u.sort,
              superseding |-> PageRequestInFlight \/ current.superseding]
\* the visitor asks for the committed location, or a page of its list
Stay ==
  current' = [filters |-> url.filters, sort |-> url.sort,
              superseding |-> FALSE]

\* navigate(to, {state}): the loader is requested for the new location and
\* any navigation in flight is superseded
Navigate(to, keepState, trigger) ==
  /\ nav' = [to |-> to, keepState |-> keepState]
  /\ lastQuery' = [variables |-> loader(to), trigger |-> trigger,
                    id |-> 1 - lastQuery.id]

PagerInit ==
  /\ url = [filters |-> {}, sort |-> "none", cursor |-> NoCursor,
            direction |-> "none"]
  /\ conn = [ctx |-> Context(loader(url)), lo |-> 1, hi |-> 1]
  /\ nav = NoNav
  /\ inView = FALSE
  /\ lastQuery = [variables |-> loader(url), trigger |-> "load", id |-> 0]
  /\ current = [filters |-> {}, sort |-> "none", superseding |-> FALSE]

\* the collection page is opened at the committed URL (reload, shared link)
OpenUrl ==
  /\ Navigate(url, FALSE, "load")
  /\ Stay
  /\ UNCHANGED <<url, conn, inView, cartVars, renderVars,
               loaderVars, layoutVars>>

ToggleFilter(f) ==
  /\ Navigate(FilterLink(url, f), FALSE, "filter")
  /\ Choose(FilterLink(url, f))
  /\ UNCHANGED <<url, conn, inView, cartVars, renderVars,
               loaderVars, layoutVars>>

ChangeSort(sort) ==
  /\ sort # url.sort
  /\ Navigate(SortLink(url, sort), FALSE, "sort")
  /\ Choose(SortLink(url, sort))
  /\ UNCHANGED <<url, conn, inView, cartVars, renderVars,
               loaderVars, layoutVars>>

ClickNext ==
  /\ hasNextPage
  /\ Navigate(nextPageUrl, TRUE, "next")
  /\ Stay
  /\ UNCHANGED <<url, conn, inView, cartVars, renderVars,
               loaderVars, layoutVars>>

ClickPrevious ==
  /\ hasPreviousPage
  /\ Navigate(previousPageUrl, TRUE, "previous")
  /\ Stay
  /\ UNCHANGED <<url, conn, inView, cartVars, renderVars,
               loaderVars, layoutVars>>

\* mutation: the effect navigates whether or not there is a next page
EntersViewAlways ==
  /\ ~inView
  /\ inView' = TRUE
  /\ Navigate(nextPageUrl, TRUE, "scroll")
  /\ UNCHANGED <<url, conn, current, cartVars, renderVars,
               loaderVars, layoutVars>>

\* useInView reports the NextLink entering the viewport; the effect of
\* ProductsLoadedOnScroll runs on the change
EntersView ==
  /\ ~inView
  /\ inView' = TRUE
  /\ IF hasNextPage THEN Navigate(nextPageUrl, TRUE, "scroll")
     ELSE UNCHANGED <<nav, lastQuery>>
  /\ UNCHANGED <<url, conn, current, cartVars, renderVars,
               loaderVars, layoutVars>>

LeavesView ==
  /\ inView
  /\ inView' = FALSE
  /\ UNCHANGED <<url, conn, nav, lastQuery, current, cartVars, renderVars,
               loaderVars, layoutVars>>

\* the loader data of the navigation in flight arrives: the location is
\* committed, Pagination merges the page into the connection it was handed
\* in the navigation state, and the effect of ProductsLoadedOnScroll runs
\* again on the new nextPageUrl
NavigationCompletes ==
  LET q == loader(nav.to)
      p == CatalogPage(q)
      c == IF nav.keepState /\ conn.ctx = Context(q)
           THEN [ctx |-> conn.ctx,
                 lo |-> IF p < conn.lo THEN p ELSE conn.lo,
                 hi |-> IF p > conn.hi THEN p ELSE conn.hi]
           ELSE [ctx |-> Context(q), lo |-> p, hi |-> p]
      next == [nav.to EXCEPT !.cursor = [ctx |-> c.ctx, page |-> c.hi],
                             !.direction = "next"]
  IN /\ nav # NoNav
     /\ url' = nav.to
     /\ conn' = c
     /\ IF inView /\ c.hi < MaxPages
        THEN /\ nav' = [to |-> next, keepState |-> TRUE]
             /\ lastQuery' = [variables |-> loader(next), trigger |-> "scroll",
                               id |-> 1 - lastQuery.id]
        ELSE /\ nav' = NoNav
             /\ UNCHANGED lastQuery
     /\ current' = [current EXCEPT !.superseding = FALSE]
     /\ UNCHANGED <<inView, cartVars, renderVars,
               loaderVars, layoutVars>>

\* ---------------------------------------------------- collection loader
MaxParams == 3

\* sort tokens of a request URL: the options, an absent one, an unknown one
SortTokens == SortParams \cup {"title-a-z"}

\* a JSON object is the sequence of its <<name, value>> members in the order
\* they are written; a text is a sequence of its pieces
Undefined == "undefined"
Has(obj, k) == \E i \in DOMAIN obj : obj[i][1] = k
Get(obj, k) ==
  IF Has(obj, k) THEN obj[CHOOSE i \in DOMAIN obj : obj[i][1] = k][2]
  ELSE Undefined
\* JavaScript truthiness of a number or a missing member
Truthy(n) == n \notin {Undefined, "0"}

PriceObjects ==
  { <<>>,
    << <<"min", "10">> >>,
    << <<"max", "50">> >>,
    << <<"min", "10">>, <<"max", "50">> >> }
OptionObjects ==
  { << <<"name", "color">>, <<"value", "red">> >>,
    << <<"value", "red">>, <<"name", "color">> >>,
    << <<"name", "color">>, <<"value", "blue">> >> }

\* the value of a search parameter: a JSON text of an object, or not JSON
Malformed == [json |-> FALSE, obj |-> <<>>]
Text(o) == [json |-> TRUE, obj |-> o]

\* entries of searchParams: prefixed = key.startsWith(FILTER_URL_PREFIX),
\* rest = key.substring(FILTER_URL_PREFIX.length)
SearchParams ==
  {[prefixed |-> TRUE, rest |-> "price", raw |-> r] :
     r \in {Malformed} \cup {Text(o) : o \in PriceObjects}}
  \cup {[prefixed |-> TRUE, rest |-> "variantOption", raw |-> r] :
     r \in {Malformed} \cup {Text(o) : o \in OptionObjects}}
  \cup {[prefixed |-> FALSE, rest |-> "q", raw |-> Malformed]}

\* filter values the collection declares (collection.products.filters)
RedValue ==
  [id |-> "filter.v.option.color", label |-> <<"Red">>,
   input |-> [key |-> "variantOption",
              val |-> << <<"name", "color">>, <<"value", "red">> >>]]
PriceValue(o) ==
  [id |-> "filter.v.price", label |-> <<"Price">>,
   input |-> [key |-> "price", val |-> o]]
DeclaredPrices ==
  { << <<"min", "0">>, <<"max", "100">> >>,
    << <<"min", "10">> >>,
    <<>> }
Catalogs ==
  {<<RedValue>>}
  \cup {<<RedValue, PriceValue(o)>> : o \in DeclaredPrices}
  \cup {<<PriceValue(o), RedValue>> : o \in DeclaredPrices}

\* JSON.parse(value) throws a SyntaxError on a text that is not JSON;
\* filters.push({[filterKey]: JSON.parse(value)}) in the reduce
RECURSIVE ParseFilters(_)
ParseFilters(params) ==
  IF params = <<>> THEN [threw |-> FALSE, filters |-> <<>>]
  ELSE LET e == Head(params)
           rest == ParseFilters(Tail(params))
       IN IF ~e.prefixed THEN rest
          ELSE IF ~e.raw.json \/ rest.threw
          THEN [threw |-> TRUE, filters |-> <<>>]
          ELSE [threw |-> FALSE,
                filters |-> <<[key |-> e.rest, val |-> e.raw.obj]>>
                              \o rest.filters]

\* JSON.stringify(valueInput) === JSON.stringify(filter)
SameJSON(f, g) == f.key = g.key /\ f.val = g.val

\* mutation: a filter matches any declared value of its key
MatchesSameKey(valueInput, filter) == valueInput.key = filter.key

\* the predicate of allFilterValues.find
Matches(valueInput, filter) ==
  \/ valueInput.key = "price" /\ filter.key = "price"
  \/ SameJSON(valueInput, filter)

\* index of foundValue in allFilterValues, 0 when find returns undefined
FindIndex(filter, values) ==
  LET hits == {i \in DOMAIN values : Matches(values[i].input, filter)}
  IN IF hits = {} THEN 0
     ELSE CHOOSE i \in hits : \A j \in hits : i <= j

\* parseAsCurrency(value, locale)
parseAsCurrency(n) == <<"$", n, ".00">>

\* the label of an applied filter
LabelOf(foundValue) ==
  IF foundValue.id = "filter.v.price"
  THEN LET input == foundValue.input.val
           min == parseAsCurrency(IF Has(input, "min") THEN Get(input, "min")
                                  ELSE "0")
           max == IF Truthy(Get(input, "max"))
                  THEN parseAsCurrency(Get(input, "max"))
                  ELSE <<>>
       IN IF min # <<>> /\ max # <<>> THEN min \o <<" - ">> \o max
          ELSE <<"Price">>
  ELSE foundValue.label

\* mutation: a filter that resolves to nothing is kept as an unknown filter
RECURSIVE AppliedFiltersKeepUnknown(_, _)
AppliedFiltersKeepUnknown(filters, values) ==
  IF filters = <<>> THEN <<>>
  ELSE LET f == Head(filters)
           i == FindIndex(f, values)
           rest == AppliedFiltersKeepUnknown(Tail(filters), values)
       IN IF i = 0 THEN <<[filter |-> f, label |-> <<"unknown">>]>> \o rest
          ELSE <<[filter |-> f, label |-> LabelOf(values[i])]>> \o rest

\* appliedFilters = filters.map(...).filter(non null)
RECURSIVE AppliedFilters(_, _)
AppliedFilters(filters, values) ==
  IF filters = <<>> THEN <<>>
  ELSE LET f == Head(filters)
           i == FindIndex(f, values)
           rest == AppliedFilters(Tail(filters), values)
       IN IF i = 0 THEN rest
          ELSE <<[filter |-> f, label |-> LabelOf(values[i])]>> \o rest

NotLoaded == [status |-> "none"]

\* the handle parameter of a page load: missing, of a page the catalog
\* has, of a page it does not have
Handles == {"absent", "known", "unknown"}

\* the loader: the variables of the catalog query and the data returned,
\* or the error thrown
LoaderResult(handle, params, sort, values) ==
  LET parsed == ParseFilters(params)
      sv == getSortValuesFromParam(sort)
  IN IF handle = "absent" \/ parsed.threw
     THEN [status |-> "error", queried |-> FALSE]
     ELSE IF handle = "unknown"
     THEN [status |-> "notFound", queried |-> TRUE]
     ELSE [status |-> "ok",
           queried |-> TRUE,
           filters |-> parsed.filters,
           sortKey |-> sv.sortKey,
           reverse |-> sv.reverse,
           appliedFilters |-> AppliedFilters(parsed.filters, values)]

RECURSIVE SeqsUpTo(_, _)
SeqsUpTo(S, n) ==
  IF n = 0 THEN {<<>>}
  ELSE LET shorter == SeqsUpTo(S, n - 1)
       IN shorter \cup {Append(q, x) : q \in shorter, x \in S}

LoaderInputs ==
  /\ lHandle \in Handles
  /\ lParams \in SeqsUpTo(SearchParams, MaxParams)
  /\ lSort \in SortTokens
  /\ lFacets \in Catalogs
  /\ lOut = NotLoaded

RunLoader ==
  /\ lOut = NotLoaded
  /\ lOut' = LoaderResult(lHandle, lParams, lSort, lFacets)
  /\ UNCHANGED <<lHandle, lParams, lSort, lFacets, productVars, localeVars,
                 cartVars, renderVars, pagerVars, layoutVars>>

\* ------------------------------------------------------- product page
MaxList == 2

\* a variant: id, its selected options (Size, Color), availableForSale
Variant(id, size, color, available) ==
  [id |-> id, size |-> size, color |-> color, available |-> available]
Products ==
  { << Variant("V1", "S", "Red", TRUE), Variant("V2", "S", "Blue", FALSE),
       Variant("V3", "M", "Red", TRUE) >>,
    << Variant("V1", "S", "Red", FALSE), Variant("V2", "M", "Red", FALSE) >>,
    << Variant("V1", "S", "Red", FALSE), Variant("V2", "S", "Blue", TRUE) >> }

\* getSelectedProductOptions(request): the options named in the URL
Selections ==
  [size : {"none", "S", "M", "L"}, color : {"none", "Red", "Blue"}]

\* the variant has the value of every option the selection names
MatchesSelection(v, sel) ==
  /\ sel.size \in {"none", v.size}
  /\ sel.color \in {"none", v.color}

FirstOf(variants, S) ==
  variants[CHOOSE i \in S : \A j \in S : i <= j]

\* mutation: the first variant, available or not
FirstVariant(variants) == variants[1]

\* the first variant that is available for sale, the first one if none is
FirstAvailableVariant(variants) ==
  LET avail == {i \in DOMAIN variants : variants[i].available}
  IN IF avail = {} THEN variants[1] ELSE FirstOf(variants, avail)

\* mutation: the selection is not looked at
selectedOrFirstAvailableVariantUnselected(variants, sel) ==
  {FirstAvailableVariant(variants)}

\* product.selectedOrFirstAvailableVariant(selectedOptions) of PRODUCT_QUERY:
\* the answers the catalog can give. The variant of a complete selection
\* that has one, the first available variant for no selection or one no
\* variant has; for a partial selection some variants have, one of those or
\* the first available variant
selectedOrFirstAvailableVariant(variants, sel) ==
  LET hits == {i \in DOMAIN variants : MatchesSelection(variants[i], sel)}
  IN IF hits = {} \/ (sel.size = "none" /\ sel.color = "none")
     THEN {FirstAvailableVariant(variants)}
     ELSE IF sel.size # "none" /\ sel.color # "none"
     THEN {FirstOf(variants, hits)}
     ELSE {variants[i] : i \in hits} \cup {FirstAvailableVariant(variants)}

\* useOptimisticVariant(selectedVariant, variants) with no navigation in
\* flight: the variant of the loader data
useOptimisticVariant(selectedVariant) == selectedVariant

\* ids of the products of the two lists of RECOMMENDED_PRODUCTS_QUERY; the
\* product being viewed is P0
ProductIds == {"P0", "P1", "P2"}
ViewedProduct == "P0"

\* array.findIndex: 0-based, -1 when no element satisfies the test
FindIndexOf(seq, id) ==
  LET hits == {i \in DOMAIN seq : seq[i] = id}
  IN IF hits = {} THEN -1
     ELSE (CHOOSE i \in hits : \A j \in hits : i <= j) - 1

\* .filter((value, index, array) => array.findIndex(same id) === index)
Dedupe(seq) ==
  LET keep == {i \in DOMAIN seq : FindIndexOf(seq, seq[i]) = i - 1}
      RECURSIVE Pick(_)
      Pick(i) == IF i > Len(seq) THEN <<>>
                 ELSE IF i \in keep THEN <<seq[i]>> \o Pick(i + 1)
                 ELSE Pick(i + 1)
  IN Pick(1)

\* array.splice(start, 1): a negative start counts from the end
Splice1(seq, start) ==
  LET from == IF start < 0
              THEN (IF Len(seq) + start < 0 THEN 0 ELSE Len(seq) + start)
              ELSE (IF start > Len(seq) THEN Len(seq) ELSE start)
  IN [i \in 1..(IF from < Len(seq) THEN Len(seq) - 1 ELSE Len(seq)) |->
        IF i <= from THEN seq[i] ELSE seq[i + 1]]

getRecommendedProducts(recommended, additional, productId) ==
  LET mergedProducts == Dedupe(recommended \o additional)
      originalProduct == FindIndexOf(mergedProducts, productId)
  IN Splice1(mergedProducts, originalProduct)

\* loader and loadCriticalData of the product route, for the answer the
\* catalog gave for the selected variant
ProductLoaderResult(handle, variant, recommended, additional) ==
  IF handle = "absent" THEN [status |-> "error", queried |-> FALSE]
  ELSE IF handle = "unknown" THEN [status |-> "notFound", queried |-> TRUE]
  ELSE [status |-> "ok",
        queried |-> TRUE,
        selectedVariant |-> variant,
        recommended |->
          getRecommendedProducts(recommended, additional, ViewedProduct)]

\* Product: the variant the page shows
DisplayedVariant(out) == useOptimisticVariant(out.selectedVariant)

ProductInputs ==
  /\ pHandle \in Handles
  /\ pProduct \in Products
  /\ pSelection \in Selections
  /\ pRecommended \in SeqsUpTo(ProductIds, MaxList)
  /\ pAdditional \in SeqsUpTo(ProductIds, MaxList)
  /\ pOut = NotLoaded

RunProductLoader ==
  /\ pOut = NotLoaded
  /\ \E v \in selectedOrFirstAvailableVariant(pProduct, pSelection) :
       pOut' = ProductLoaderResult(pHandle, v, pRecommended, pAdditional)
  /\ UNCHANGED <<pHandle, pProduct, pSelection, pRecommended, pAdditional,
                 lHandle, lParams, lSort, lFacets, lOut, localeVars,
                 cartVars, renderVars, pagerVars, layoutVars>>

\* ------------------------------------- locale check of the index loaders
\* strings are sequences of characters
CasePairs ==
  {<<"E", "e">>, <<"N", "n">>, <<"F", "f">>, <<"R", "r">>, <<"U", "u">>,
   <<"S", "s">>, <<"C", "c">>, <<"A", "a">>}

LowerChar(ch) ==
  IF \E p \in CasePairs : p[1] = ch
  THEN (CHOOSE p \in CasePairs : p[1] = ch)[2]
  ELSE ch

\* mutation: the strings are compared as they are
toLowerCaseKeep(str) == str

\* String.prototype.toLowerCase
toLowerCase(str) == [i \in DOMAIN str |-> LowerChar(str[i])]

\* the home page and the all-products page
IndexLoaders == {"home", "allProducts"}

LanguageParts ==
  {<<"e", "n">>, <<"E", "N">>, <<"E", "n">>, <<"f", "r">>, <<"F", "R">>}
CountryParts ==
  {<<"u", "s">>, <<"U", "S">>, <<"c", "a">>, <<"C", "A">>}
Separators == {<<"-">>, <<"_">>}

\* params.locale of the optional ($locale) segment; <<>>: no segment
LocaleParams ==
  {<<>>} \cup LanguageParts
    \cup {l \o sep \o c : l \in LanguageParts, sep \in Separators,
                           c \in CountryParts}

\* context.storefront.i18n
I18ns ==
  [language : {<<"E", "N">>, <<"F", "R">>},
   country : {<<"U", "S">>, <<"C", "A">>}]

\* `${language}-${country}`
LocaleOf(i18n) == i18n.language \o <<"-">> \o i18n.country

\* storefront queries of a load that proceeds: loadDeferredData and
\* loadCriticalData of the home page, loadCriticalData of all-products
QueriesOf(page) == IF page = "home" THEN 3 ELSE 2

\* if (params.locale && params.locale.toLowerCase() !==
\*     `${language}-${country}`.toLowerCase()) throw new Response(null, 404)
IndexLoaderResult(page, locale, i18n) ==
  IF locale # <<>> /\ toLowerCase(locale) # toLowerCase(LocaleOf(i18n))
  THEN [status |-> "notFound", queries |-> 0]
  ELSE [status |-> "ok", queries |-> QueriesOf(page)]

LocaleInputs ==
  /\ cLoader \in IndexLoaders
  /\ cLocale \in LocaleParams
  /\ cI18n \in I18ns
  /\ cOut = NotLoaded

RunIndexLoader ==
  /\ cOut = NotLoaded
  /\ cOut' = IndexLoaderResult(cLoader, cLocale, cI18n)
  /\ UNCHANGED <<cLoader, cLocale, cI18n, lHandle, lParams, lSort, lFacets,
                 lOut, productVars, cartVars, renderVars, pagerVars,
                 layoutVars>>

\* --------------------------------------- add to cart and the cart drawer
Buttons == {"B1", "B2"}
\* the cart forms of a page: two add-to-cart buttons and a quantity form
CartForms == Buttons \cup {"update"}
MaxAddRequests == 2

\* action={CartForm.ACTIONS.LinesAdd}
FormAction(k) == IF k \in Buttons THEN "LinesAdd" ELSE "LinesUpdate"

\* const isLoading = fetcher.state !== 'idle'
isLoading(b) == hFetchers[b] # "idle"

\* mutation: disabled={disabled}
ButtonDisabledByProp(b) == addDisabled[b]

\* disabled={disabled || isLoading}
ButtonDisabled(b) == addDisabled[b] \/ isLoading(b)

\* the fetchers in flight whose form carries the action
useCartFetchers(fs, actionName) ==
  {k \in CartForms : fs[k] # "idle" /\ FormAction(k) = actionName}

\* mutation: the effect opens the drawer whatever the fetchers
HeaderEffectNoGuard(open, addToCartFetchers) == TRUE

\* useEffect: if (isCartOpen || !addToCartFetchers.length) return; openCart()
HeaderEffect(open, addToCartFetchers) ==
  IF open \/ addToCartFetchers = {} THEN open ELSE TRUE

\* the header renders after every change and runs its effect
Rendered(open, fs) == HeaderEffect(open, useCartFetchers(fs, "LinesAdd"))

AddInit ==
  /\ hFetchers = [k \in CartForms |-> "idle"]
  /\ addDisabled \in [Buttons -> BOOLEAN]
  /\ addRequests = [b \in Buttons |-> 0]
  /\ isCartOpen = FALSE

notLayout == <<cartVars, renderVars, pagerVars, loaderVars>>
notAdd == <<notLayout, sheckleVars>>

\* a click on an add-to-cart button that is not disabled submits its form
SubmitAdd(b) ==
  /\ ~ButtonDisabled(b)
  /\ addRequests[b] < MaxAddRequests
  /\ hFetchers' = [hFetchers EXCEPT ![b] = "submitting"]
  /\ addRequests' = [addRequests EXCEPT ![b] = @ + 1]
  /\ isCartOpen' = Rendered(isCartOpen, hFetchers')
  /\ UNCHANGED <<addDisabled, notAdd>>

\* a quantity form of the cart is submitted
SubmitUpdate ==
  /\ hFetchers["update"] # "submitting"
  /\ hFetchers' = [hFetchers EXCEPT !["update"] = "submitting"]
  /\ isCartOpen' = Rendered(isCartOpen, hFetchers')
  /\ UNCHANGED <<addDisabled, addRequests, notAdd>>

\* the /cart action answers: the fetcher revalidates
ActionReturns(k) ==
  /\ hFetchers[k] = "submitting"
  /\ hFetchers' = [hFetchers EXCEPT ![k] = "loading"]
  /\ addRequests' = IF k \in Buttons
                    THEN [addRequests EXCEPT ![k] = @ - 1]
                    ELSE addRequests
  /\ isCartOpen' = Rendered(isCartOpen, hFetchers')
  /\ UNCHANGED <<addDisabled, notAdd>>

\* the revalidation is done: the fetcher is idle again
Revalidated(k) ==
  /\ hFetchers[k] = "loading"
  /\ hFetchers' = [hFetchers EXCEPT ![k] = "idle"]
  /\ isCartOpen' = Rendered(isCartOpen, hFetchers')
  /\ UNCHANGED <<addDisabled, addRequests, notAdd>>

\* CartDrawer onClose={closeCart}
CloseCart ==
  /\ isCartOpen
  /\ isCartOpen' = Rendered(FALSE, hFetchers)
  /\ UNCHANGED <<hFetchers, addDisabled, addRequests, notAdd>>

\* CartBadge onClick={openCart}
OpenCart ==
  /\ ~isCartOpen
  /\ isCartOpen' = Rendered(TRUE, hFetchers)
  /\ UNCHANGED <<hFetchers, addDisabled, addRequests, notAdd>>

\* the page renders the button with another value of the disabled prop
SetDisabled(b) ==
  /\ addDisabled' = [addDisabled EXCEPT ![b] = ~@]
  /\ isCartOpen' = Rendered(isCartOpen, hFetchers)
  /\ UNCHANGED <<hFetchers, addRequests, notAdd>>

\* ------------------------------------------------------------ SheckleMan
MaxMounts == 3
Instances == 1..MaxMounts

\* no instance yet: no timer, useState(false), useState(false)
NoInstance == [timer |-> "none", isVisible |-> FALSE, hasAppeared |-> FALSE]

\* a state setter changes the state of a mounted component only
SetState(i, inst, visible, appeared) ==
  IF sMounted = i
  THEN [inst EXCEPT !.isVisible = visible, !.hasAppeared = appeared]
  ELSE inst

\* showCharacter: setIsVisible(true); setHasAppeared(true);
\* setTimeout(hide, 4000)
showCharacter(i, inst) ==
  [SetState(i, inst, TRUE, TRUE) EXCEPT !.timer = "hide"]

\* the 4 s callback: setIsVisible(false); setTimeout(showCharacter, nextDelay)
hideCharacter(i, inst) ==
  [SetState(i, inst, FALSE, inst.hasAppeared) EXCEPT !.timer = "next"]

\* return () => clearTimeout(timer): timer is the initial timer
Cleanup(inst) ==
  IF inst.timer = "initial" THEN [inst EXCEPT !.timer = "cleared"] ELSE inst

SheckleInit ==
  /\ sMounts = 0
  /\ sMounted = 0
  /\ sInst = [i \in Instances |-> NoInstance]

notSheckle == <<notLayout, addVars>>

\* the layout mounts SheckleMan: the effect starts the initial timer
Mount ==
  /\ sMounted = 0
  /\ sMounts < MaxMounts
  /\ sMounts' = sMounts + 1
  /\ sMounted' = sMounts'
  /\ sInst' = [sInst EXCEPT ![sMounts'] =
                 [timer |-> "initial", isVisible |-> FALSE,
                  hasAppeared |-> FALSE]]
  /\ UNCHANGED notSheckle

\* the layout unmounts SheckleMan: the effect's cleanup runs
Unmount ==
  /\ sMounted # 0
  /\ sInst' = [sInst EXCEPT ![sMounted] = Cleanup(@)]
  /\ sMounted' = 0
  /\ UNCHANGED <<sMounts, notSheckle>>

\* setTimeout(showCharacter, initialDelay) fires
InitialTimerFires(i) ==
  /\ sInst[i].timer = "initial"
  /\ sInst' = [sInst EXCEPT ![i] = showCharacter(i, @)]
  /\ UNCHANGED <<sMounts, sMounted, notSheckle>>

\* the 4 s timer fires
HideTimerFires(i) ==
  /\ sInst[i].timer = "hide"
  /\ sInst' = [sInst EXCEPT ![i] = hideCharacter(i, @)]
  /\ UNCHANGED <<sMounts, sMounted, notSheckle>>

\* setTimeout(showCharacter, nextDelay) fires
NextTimerFires(i) ==
  /\ sInst[i].timer = "next"
  /\ sInst' = [sInst EXCEPT ![i] = showCharacter(i, @)]
  /\ UNCHANGED <<sMounts, sMounted, notSheckle>>

TimerFires(i) ==
  InitialTimerFires(i) \/ HideTimerFires(i) \/ NextTimerFires(i)

\* ------------------------------------------------------- specifications
CartParked ==
  /\ sLines = [l \in Lines |-> 1]
  /\ sCodes = FALSE
  /\ cart = Snapshot(sLines, sCodes)
  /\ fetchers = [k \in Keys |-> IdleFetcher]
  /\ order = <<>>
  /\ loads = <<>>
  /\ zombies = {}
  /\ recent = [l \in Lines |-> "none"]
  /\ olderDone = [l \in Lines |-> FALSE]
  /\ nsub = 0

RenderParked ==
  /\ rLine = 1
  /\ rData = NoData
  /\ rOut = NotRendered

\* a collection page and a product page that have been loaded
CollectionParked ==
  /\ lHandle = "known"
  /\ lParams = <<>>
  /\ lSort = "none"
  /\ lFacets = <<RedValue>>
  /\ lOut = LoaderResult(lHandle, lParams, lSort, lFacets)

ProductParked ==
  /\ pHandle = "known"
  /\ pProduct = << Variant("V1", "S", "Red", TRUE) >>
  /\ pSelection = [size |-> "none", color |-> "none"]
  /\ pRecommended = <<>>
  /\ pAdditional = <<>>
  /\ pOut = ProductLoaderResult(pHandle, pProduct[1], pRecommended,
                                pAdditional)

\* a home page that has been loaded
LocaleParked ==
  /\ cLoader = "home"
  /\ cLocale = <<>>
  /\ cI18n = [language |-> <<"E", "N">>, country |-> <<"U", "S">>]
  /\ cOut = IndexLoaderResult(cLoader, cLocale, cI18n)

LoaderParked == CollectionParked /\ ProductParked /\ LocaleParked

AddParked ==
  /\ hFetchers = [k \in CartForms |-> "idle"]
  /\ addDisabled = [b \in Buttons |-> FALSE]
  /\ addRequests = [b \in Buttons |-> 0]
  /\ isCartOpen = FALSE

SheckleParked == SheckleInit

LayoutParked == AddParked /\ SheckleParked

\* the cart with its forms
Init ==
  CartInit /\ RenderParked /\ PagerInit /\ LoaderParked /\ LayoutParked
Next == CartNext
Spec == Init /\ [][Next]_vars

\* the cart under the quantity controls alone
QuantityNext ==
  \/ \E l \in Lines : DecreaseQuantity(l)
  \/ \E l \in Lines : IncreaseQuantity(l)
  \/ \E k \in Keys : ActionSucceeds(k)
  \/ \E k \in Keys : ActionFails(k)
  \/ \E z \in Submissions : ZombieApplied(z)
  \/ \E k \in Keys : Land(k)
SpecQuantity == Init /\ [][QuantityNext]_vars

\* CartLineItem applied to every line quantity and optimistic data
RenderInit ==
  /\ rLine \in 1..MaxRenderQty
  /\ rData \in OptimisticDataSet
  /\ rOut = NotRendered
  /\ CartParked
  /\ PagerInit
  /\ LoaderParked
  /\ LayoutParked
RenderNext == RenderCartLine
SpecRender == RenderInit /\ [][RenderNext]_vars

\* the collection page: filters, sort and pagination
PagerNext ==
  \/ OpenUrl
  \/ \E f \in FilterIds : ToggleFilter(f)
  \/ \E sort \in SortParams : ChangeSort(sort)
  \/ ClickNext
  \/ ClickPrevious
  \/ EntersView
  \/ LeavesView
  \/ NavigationCompletes
PagerSpecInit ==
  CartParked /\ RenderParked /\ PagerInit /\ LoaderParked /\ LayoutParked
SpecPager == PagerSpecInit /\ [][PagerNext]_vars

\* the loaders of the collection page and of the product page, each
\* applied to every request and catalog
LoaderInit ==
  /\ \/ LoaderInputs /\ ProductParked /\ LocaleParked
     \/ ProductInputs /\ CollectionParked /\ LocaleParked
     \/ LocaleInputs /\ CollectionParked /\ ProductParked
  /\ CartParked
  /\ RenderParked
  /\ PagerInit
  /\ LayoutParked
LoaderNext ==
  \/ RunLoader
  \/ RunProductLoader
  \/ RunIndexLoader
SpecLoader == LoaderInit /\ [][LoaderNext]_vars

\* the add-to-cart buttons of a page and the header's cart drawer
AddSpecInit ==
  /\ AddInit
  /\ SheckleParked
  /\ CartParked /\ RenderParked /\ PagerInit /\ LoaderParked
AddNext ==
  \/ \E b \in Buttons : SubmitAdd(b)
  \/ SubmitUpdate
  \/ \E k \in CartForms : ActionReturns(k)
  \/ \E k \in CartForms : Revalidated(k)
  \/ CloseCart
  \/ OpenCart
  \/ \E b \in Buttons : SetDisabled(b)
SpecAdd == AddSpecInit /\ [][AddNext]_vars

\* SheckleMan mounted and unmounted by the layout, and its timers
SheckleSpecInit ==
  /\ SheckleInit
  /\ AddParked
  /\ CartParked /\ RenderParked /\ PagerInit /\ LoaderParked
SheckleNext ==
  \/ Mount
  \/ Unmount
  \/ \E i \in Instances : InitialTimerFires(i)
  \/ \E i \in Instances : HideTimerFires(i)
  \/ \E i \in Instances : NextTimerFires(i)
SpecSheckle == SheckleSpecInit /\ [][SheckleNext]_vars

\* --------------------------------------------------------------- claims
LineKeys == Lines \X LineForms

\* the line as the authoritative snapshot alone would show it
AuthoritativeLine(c, l) ==
  IF InCart(c, l) THEN [shown |-> TRUE, quantity |-> c.lines[l]]
  ELSE [shown |-> FALSE, quantity |-> 0]

\* the most recent proposal on line l is a quantity change still in flight
RecentQtyInFlight(l) ==
  /\ recent[l] \in QtyForms
  /\ InFlight(fetchers, <<l, recent[l]>>)

RecentQuantity(l) == fetchers[<<l, recent[l]>>].data.quantity

\* a proposal is made on line l in this step
ProposeOn(l) ==
  \/ DecreaseQuantity(l)
  \/ IncreaseQuantity(l)
  \/ RemoveItem(l)

\* the snapshot c shows the intent of the mutation fetcher k carries
Reflects(c, k) ==
  IF k[2] = "remove" THEN c.lines[k[1]] = 0
  ELSE c.lines[k[1]] = fetchers[k].data.quantity

\* C1: while the most recently proposed quantity change n of a displayed
\* line is in flight, the rendered quantity of the line is n, whatever the
\* authoritative quantity is.
C1_RenderedIsProposed ==
  \A l \in Lines :
    (RecentQtyInFlight(l) /\ Displayed(cart, fetchers, order, l))
      => optimisticQuantity(cart, fetchers, order, l) = RecentQuantity(l)

\* C2: at most one pending mutation is retained per cart line, and it is
\* the most recently proposed one.
C2_OnlyNewestRetained ==
  \A l \in Lines : \A f \in PendingOn(fetchers, l) : f = recent[l]

C4_ReconcileClears ==
  [][\A k \in LineKeys :
       (Land(k) /\ k[2] = recent[k[1]] /\ ~fetchers[k].failed
          /\ Reflects(cart', k))
         => /\ PendingOn(fetchers', k[1]) = {}
            /\ RenderedLine(cart', fetchers', order', k[1])
                 = AuthoritativeLine(cart', k[1])]_vars

\* C5: when the failure of the most recent mutation of a line has come
\* back, no overlay is left on the line, the line is displayed with the
\* authoritative quantity it had before the mutation, and nothing is
\* submitted again.
C5_FailureReverts ==
  [][\A k \in LineKeys :
       (Land(k) /\ k[2] = recent[k[1]] /\ fetchers[k].failed)
         => /\ PendingOn(fetchers', k[1]) = {}
            /\ RenderedLine(cart', fetchers', order', k[1])
                 = [shown |-> TRUE, quantity |-> fetchers[k].pre]
            /\ nsub' = nsub /\ zombies' = zombies]_vars

\* C6: a line of the cart is hidden exactly while a removal is pending on
\* it; with no pending mutation or only quantity changes it is displayed.
C6_HiddenIffRemoval ==
  \A l \in Lines :
    InCart(cart, l)
      => (Displayed(cart, fetchers, order, l)
            <=> ~InFlight(fetchers, <<l, "remove">>))

C6_Witness ==
  \E l \in Lines :
    /\ InCart(cart, l)
    /\ InFlight(fetchers, <<l, "remove">>)
    /\ \E f \in QtyForms : InFlight(fetchers, <<l, f>>)
    /\ ~Displayed(cart, fetchers, order, l)

C8_ProposalFrame ==
  [][\A l \in Lines :
       ProposeOn(l)
         => /\ RenderedSubtotal(cart') = RenderedSubtotal(cart)
            /\ RenderedCodes(cart') = RenderedCodes(cart)
            /\ \A m \in Lines :
                 RenderedLinePrice(cart', m) = RenderedLinePrice(cart, m)
            /\ \A m \in Lines \ {l} :
                 RenderedLine(cart', fetchers', order', m)
                   = RenderedLine(cart, fetchers, order, m)]_vars

C8_Witness ==
  \E l \in Lines :
    /\ RecentQtyInFlight(l)
    /\ Displayed(cart, fetchers, order, l)
    /\ optimisticQuantity(cart, fetchers, order, l) # cart.lines[l]
    /\ RenderedSubtotal(cart) = SumCost(cart.lines, Lines)
    /\ RenderedSubtotal(cart) = SumCost(sLines, Lines)

\* C9 as stated: a proposal, reconcile or failure on line a changes neither
\* the pending intent nor the rendered quantity/visibility of another
\* line b.
C9_LinesIndependent ==
  [][\A a \in Lines : \A b \in Lines \ {a} :
       (ProposeOn(a) \/ \E f \in LineForms : Land(<<a, f>>))
         => /\ useOptimisticData(fetchers', order', b)
                 = useOptimisticData(fetchers, order, b)
            /\ RenderedLine(cart', fetchers', order', b)
                 = RenderedLine(cart, fetchers, order, b)]_vars

\* C9 amended: a proposal on line a changes neither the pending intent nor
\* the rendered quantity/visibility of another line b; a reconcile or
\* failure on a leaves every mutation of b that still awaits its response
\* as it is, and leaves the rendered quantity/visibility of b unchanged
\* whenever the pending intent of b is unchanged and carries a quantity or
\* a removal.
C9_LinesIndependentAmended ==
  [][\A a \in Lines : \A b \in Lines \ {a} :
       /\ ProposeOn(a)
            => /\ useOptimisticData(fetchers', order', b)
                    = useOptimisticData(fetchers, order, b)
               /\ RenderedLine(cart', fetchers', order', b)
                    = RenderedLine(cart, fetchers, order, b)
       /\ (\E f \in LineForms : Land(<<a, f>>))
            => /\ \A g \in LineForms :
                    fetchers[<<b, g>>].state = "submitting"
                      => fetchers'[<<b, g>>] = fetchers[<<b, g>>]
               /\ LET d == useOptimisticData(fetchers, order, b)
                  IN (/\ useOptimisticData(fetchers', order', b) = d
                      /\ (d.hasQuantity \/ d.action = "remove"))
                       => RenderedLine(cart', fetchers', order', b)
                            = RenderedLine(cart, fetchers, order, b)]_vars

C9_Witness ==
  \E a \in Lines : \E b \in Lines \ {a} :
    /\ recent[a] # "none" /\ PendingOn(fetchers, a) = {}
    /\ cart.lines[a] # 0
    /\ RecentQtyInFlight(b)
    /\ fetchers[<<b, recent[b]>>].state = "submitting"
    /\ optimisticQuantity(cart, fetchers, order, b) # cart.lines[b]

\* C10: a catalog query triggered by a filter or sort change carries no
\* start cursor and no end cursor, and a cursor is only ever sent with the
\* filter/sort context that produced it.
C10_NoStaleCursor ==
  LET q == lastQuery.variables
  IN /\ lastQuery.trigger \in {"filter", "sort"}
          => (q.startCursor = NoCursor /\ q.endCursor = NoCursor)
     /\ \A c \in {q.startCursor, q.endCursor} :
          c # NoCursor => c.ctx = Context(q)

C10_Witness ==
  /\ lastQuery.trigger \in {"filter", "sort"}
  /\ url.cursor # NoCursor
  /\ conn.hi > 1
  /\ Context(lastQuery.variables) # conn.ctx

\* a forward trigger: the load-more link is activated, or the viewport
\* signal reports the link visible
ForwardTrigger == ClickNext \/ EntersView

\* C11: a forward trigger received while a forward page request is in
\* flight is ignored: it issues no catalog query and leaves the navigation
\* in flight as it is.
C11_OneRequestPerDirection ==
  [][(nav # NoNav /\ nav.to.direction = "next" /\ ForwardTrigger)
       => (lastQuery' = lastQuery /\ nav' = nav)]_vars

\* C12: a catalog query is issued on the viewport signal only with the link
\* visible and a connection that has a next page; with hasNextPage false
\* the link becoming visible requests no navigation.
C12_ScrollNeedsNextPage ==
  [][/\ (lastQuery' # lastQuery /\ lastQuery'.trigger = "scroll")
          => (inView' /\ conn'.hi < MaxPages)
     /\ (~inView /\ inView' /\ ~hasNextPage)
          => (nav' = nav /\ lastQuery' = lastQuery)]_vars

C12_Witness ==
  /\ inView
  /\ ~hasNextPage
  /\ nav = NoNav
  /\ lastQuery.trigger # "scroll"

\* C13: after a filter or sort change superseded a page request in flight,
\* the response applied to the view is one for the filters and the sort
\* chosen, never one for the old parameters.
C13_OnlyCurrentApplied ==
  [][(NavigationCompletes /\ current.superseding)
       => (url'.filters = current.filters /\ url'.sort = current.sort)]_vars

\* the filters of the parameters that decode, in parameter order
DecodedFilters(params) ==
  LET d == SelectSeq(params, LAMBDA e : e.prefixed /\ e.raw.json)
  IN [i \in DOMAIN d |-> [key |-> d[i].rest, val |-> d[i].raw.obj]]

\* C14: a request with a filter parameter whose value is not JSON still
\* loads, with the filters of the other parameters parsed and sent.
C14_UndecodableSkipped ==
  (lOut # NotLoaded /\ lHandle = "known")
    => (lOut.status = "ok" /\ lOut.filters = DecodedFilters(lParams))

\* structural equality of two filter input objects
StructEq(f, g) ==
  /\ f.key = g.key
  /\ Len(f.val) = Len(g.val)
  /\ {f.val[i] : i \in DOMAIN f.val} = {g.val[i] : i \in DOMAIN g.val}

\* filter f corresponds to a declared filter value
Corresponds(f, values) ==
  \E i \in DOMAIN values :
    \/ StructEq(values[i].input, f)
    \/ values[i].input.key = "price" /\ f.key = "price"

RECURSIVE IsSubSeq(_, _)
IsSubSeq(a, b) ==
  IF a = <<>> THEN TRUE
  ELSE IF b = <<>> THEN FALSE
  ELSE IF Head(a) = Head(b) THEN IsSubSeq(Tail(a), Tail(b))
  ELSE IsSubSeq(a, Tail(b))

AppliedOf(out) ==
  [i \in DOMAIN out.appliedFilters |-> out.appliedFilters[i].filter]

\* C15: every entry of appliedFilters corresponds to a declared filter
\* value, a parsed filter that corresponds to none is not among them, and
\* the entries keep the order of the query parameters.
C15_AppliedAreDeclared ==
  lOut.status = "ok" =>
    LET af == AppliedOf(lOut)
    IN /\ \A i \in DOMAIN af : Corresponds(af[i], lFacets)
       /\ \A i \in DOMAIN lOut.filters :
            ~Corresponds(lOut.filters[i], lFacets)
              => \A j \in DOMAIN af : af[j] # lOut.filters[i]
       /\ IsSubSeq(af, DecodedFilters(lParams))
       /\ \A i \in DOMAIN lOut.appliedFilters :
            lOut.appliedFilters[i].label # <<"unknown">>

C15_Witness ==
  /\ lOut.status = "ok"
  /\ Len(lOut.filters) = 3
  /\ Len(lOut.appliedFilters) = 2
  /\ lOut.appliedFilters[1].filter # lOut.appliedFilters[2].filter

\* C16: every filter sent to the catalog query is one of appliedFilters.
C16_UnresolvedNotSent ==
  lOut.status = "ok" =>
    \A i \in DOMAIN lOut.filters :
      \E j \in DOMAIN lOut.appliedFilters :
        lOut.appliedFilters[j].filter = lOut.filters[i]

\* C17: a price filter is applied whenever the collection declares a price
\* value, whatever the bounds of the two; an applied filter that is not a
\* price filter is structurally equal to the input of a declared value and
\* carries the label of that value.
C17_Resolution ==
  lOut.status = "ok" =>
    /\ \A i \in DOMAIN lOut.filters :
         (/\ lOut.filters[i].key = "price"
          /\ \E v \in DOMAIN lFacets : lFacets[v].input.key = "price")
           => \E j \in DOMAIN lOut.appliedFilters :
                lOut.appliedFilters[j].filter = lOut.filters[i]
    /\ \A j \in DOMAIN lOut.appliedFilters :
         lOut.appliedFilters[j].filter.key # "price"
           => \E v \in DOMAIN lFacets :
                /\ StructEq(lFacets[v].input, lOut.appliedFilters[j].filter)
                /\ lOut.appliedFilters[j].label = lFacets[v].label

C17_Witness ==
  /\ lOut.status = "ok"
  /\ \E j \in DOMAIN lOut.appliedFilters :
       LET f == lOut.appliedFilters[j].filter
       IN /\ f.key = "price"
          /\ \A v \in DOMAIN lFacets : lFacets[v].input # f
  /\ \E j \in DOMAIN lOut.appliedFilters :
       /\ lOut.appliedFilters[j].filter.key = "variantOption"
       /\ lOut.appliedFilters[j].label = <<"Red">>
  /\ \E i \in DOMAIN lOut.filters :
       /\ lOut.filters[i].key = "variantOption"
       /\ \A j \in DOMAIN lOut.appliedFilters :
            lOut.appliedFilters[j].filter # lOut.filters[i]

\* C18: the label of an applied price filter whose URL value has a min and
\* a max bound is '<formatted min> - <formatted max>' of those two bounds.
C18_LabelFromUrlBounds ==
  lOut.status = "ok" =>
    \A j \in DOMAIN lOut.appliedFilters :
      LET f == lOut.appliedFilters[j].filter
      IN (f.key = "price" /\ Has(f.val, "min") /\ Has(f.val, "max"))
           => lOut.appliedFilters[j].label
                = parseAsCurrency(Get(f.val, "min")) \o <<" - ">>
                    \o parseAsCurrency(Get(f.val, "max"))

\* C19: the label of an applied price filter is "Price" exactly when the
\* price input it is derived from has neither a min nor a max bound.
C19_PriceFallback ==
  lOut.status = "ok" =>
    \A j \in DOMAIN lOut.appliedFilters :
      LET f == lOut.appliedFilters[j].filter
          b == lFacets[FindIndex(f, lFacets)].input.val
      IN f.key = "price"
           => ((lOut.appliedFilters[j].label = <<"Price">>)
                 <=> (~Has(b, "min") /\ ~Has(b, "max")))

\* C20: the sort key and direction sent to the catalog query are those of
\* the table, and (RELEVANCE, not reversed) for an absent or unknown token.
C20_SortMapping ==
  lOut.status = "ok" =>
    LET r == <<lOut.sortKey, lOut.reverse>>
    IN /\ lSort = "price-high-low" => r = <<"PRICE", TRUE>>
       /\ lSort = "price-low-high" => r = <<"PRICE", FALSE>>
       /\ lSort = "best-selling" => r = <<"BEST_SELLING", FALSE>>
       /\ lSort = "newest" => r = <<"CREATED", TRUE>>
       /\ lSort = "featured" => r = <<"MANUAL", FALSE>>
       /\ lSort \notin SortOptions => r = <<"RELEVANCE", FALSE>>

C20_Witness ==
  /\ lOut.status = "ok"
  /\ lSort = "title-a-z"
  /\ lOut.sortKey = "RELEVANCE"

\* C21: a collection or product page load without its handle ends in the
\* not-found response and issues no catalog query.
C21_MissingHandleNotFound ==
  /\ (lHandle = "absent" /\ lOut # NotLoaded)
       => (lOut.status = "notFound" /\ ~lOut.queried)
  /\ (pHandle = "absent" /\ pOut # NotLoaded)
       => (pOut.status = "notFound" /\ ~pOut.queried)

\* the selection names a value for every option
Complete(sel) == sel.size # "none" /\ sel.color # "none"

RECURSIVE FirstOccurrences(_, _)
FirstOccurrences(seq, seen) ==
  IF seq = <<>> THEN <<>>
  ELSE IF Head(seq) \in seen THEN FirstOccurrences(Tail(seq), seen)
  ELSE <<Head(seq)>> \o FirstOccurrences(Tail(seq), seen \cup {Head(seq)})

\* C24: the recommended products are the recommended list followed by the
\* additional list, less later duplicates and less the viewed product, and
\* nothing else is dropped.
C24_RecommendedMerge ==
  pOut.status = "ok"
    => pOut.recommended
         = FirstOccurrences(pRecommended \o pAdditional, {ViewedProduct})

\* the quantity the fetcher of a quantity control carries
Proposed(fs, l, f) == fs[<<l, f>>].data.quantity

C25_State ==
  \A l \in Lines :
    /\ \A f \in QtyForms :
         InFlight(fetchers, <<l, f>>) => Proposed(fetchers, l, f) \in Nat
    /\ prevQuantity(optimisticQuantity(cart, fetchers, order, l)) \in Nat
    /\ Displayed(cart, fetchers, order, l) =>
         optimisticQuantity(cart, fetchers, order, l) >= 1

C25_Step ==
  \A l \in Lines :
    DecreaseQuantity(l) => optimisticQuantity(cart, fetchers, order, l) > 1

\* C25: whatever increase and decrease activations were made on a cart line,
\* every quantity proposed by a control is a non-negative integer, the quantity
\* rendered for a line of the cart is at least 1, and the decrease control is
\* never activated while the rendered quantity is 1 or less
C25_QuantityFloor == []C25_State /\ [][C25_Step]_vars

\* a decrease was proposed and the rendered quantity is now 1: the control is
\* disabled
C25_Witness ==
  /\ InFlight(fetchers, <<"L2", "dec">>)
  /\ Displayed(cart, fetchers, order, "L2")
  /\ optimisticQuantity(cart, fetchers, order, "L2") = 1
  /\ DecreaseDisabled(optimisticQuantity(cart, fetchers, order, "L2"))

\* C26: a quantity control proposes the rendered quantity plus or minus one,
\* and an increase made while no other form of the line is in flight raises
\* the rendered quantity by one: k increases in a row before any
\* reconciliation propose q+1 .. q+k and leave q+k rendered
C26_ProposalFromRendered ==
  [][\A l \in Lines :
       LET q == optimisticQuantity(cart, fetchers, order, l)
       IN /\ IncreaseQuantity(l) => Proposed(fetchers', l, "inc") = q + 1
          /\ DecreaseQuantity(l) => Proposed(fetchers', l, "dec") = q - 1
          /\ IncreaseQuantity(l) /\ PendingOn(fetchers, l) \subseteq {"inc"}
               => optimisticQuantity(cart', fetchers', order', l) = q + 1]_vars

\* two increases in a row on a line of authoritative quantity 1, none of them
\* answered yet: 3 is proposed and rendered
C26_Witness ==
  /\ cart.lines["L1"] = 1
  /\ sLines["L1"] = 1
  /\ PendingOn(fetchers, "L1") = {"inc"}
  /\ fetchers[<<"L1", "inc">>].state = "submitting"
  /\ Proposed(fetchers, "L1", "inc") = 3
  /\ optimisticQuantity(cart, fetchers, order, "L1") = 3

C27_State ==
  \A b \in Buttons :
    /\ isLoading(b) => ButtonDisabled(b)
    /\ addRequests[b] <= 1
    /\ ~isLoading(b) => (ButtonDisabled(b) <=> addDisabled[b])

C27_Step == \A b \in Buttons : SubmitAdd(b) => hFetchers[b] = "idle"

\* C27: an add-to-cart button is disabled while its own fetcher is not idle,
\* it is submitted only while its fetcher is idle, so that it never has two
\* requests in flight, and with an idle fetcher it is disabled exactly when
\* the disabled prop is set
C27_OneSubmissionPerButton == []C27_State /\ [][C27_Step]_vars

\* one button is submitting and disabled though its prop is not set, the
\* other one, whose fetcher is idle, is enabled
C27_Witness ==
  /\ hFetchers["B1"] = "submitting"
  /\ addRequests["B1"] = 1
  /\ ~addDisabled["B1"]
  /\ ButtonDisabled("B1")
  /\ ~isLoading("B2")
  /\ ~ButtonDisabled("B2")

AddInFlight(fs) == useCartFetchers(fs, "LinesAdd") # {}

C28_Step ==
  /\ (isCartOpen /\ ~isCartOpen') => (CloseCart /\ ~AddInFlight(hFetchers'))
  /\ (~isCartOpen /\ isCartOpen') => (OpenCart \/ AddInFlight(hFetchers'))

\* C28: while an add-to-cart submission is in flight the cart drawer is open,
\* also after the user closed it; the drawer closes only when the user closes
\* it with no add-to-cart submission in flight, and opens only when the user
\* opens it or an add-to-cart submission is in flight
C28_DrawerOpensOnAdd ==
  [](AddInFlight(hFetchers) => isCartOpen) /\ [][C28_Step]_vars

\* an add-to-cart submission is in flight beside a quantity submission and
\* the drawer is open
C28_Witness ==
  /\ hFetchers["B2"] = "loading"
  /\ hFetchers["update"] = "submitting"
  /\ isCartOpen

\* C29: no timer of a SheckleMan instance fires once the instance is
\* unmounted, whenever the unmount happened
C29_NoTimerAfterUnmount ==
  [][\A i \in Instances : TimerFires(i) => sMounted = i]_vars

SameLetter(x, y) ==
  x = y \/ <<x, y>> \in CasePairs \/ <<y, x>> \in CasePairs

SameIgnoringCase(a, b) ==
  Len(a) = Len(b) /\ \A i \in 1..Len(a) : SameLetter(a[i], b[i])

\* C30: the home and all-products loaders answer 404 with no storefront
\* query exactly when there is a locale parameter and it differs, case
\* ignored, from language-country of the storefront; otherwise the load
\* proceeds and queries the storefront
C30_LocaleMismatchNotFound ==
  cOut # NotLoaded =>
    LET mismatch == cLocale # <<>>
                    /\ ~SameIgnoringCase(cLocale, LocaleOf(cI18n))
    IN /\ mismatch <=> cOut.status = "notFound"
       /\ mismatch => cOut.queries = 0
       /\ ~mismatch => cOut.status = "ok" /\ cOut.queries > 0

\* the all-products page loaded with a locale that matches in another case
C30_Witness ==
  /\ cLoader = "allProducts"
  /\ cLocale = <<"e", "n", "-", "c", "a">>
  /\ cI18n = [language |-> <<"E", "N">>, country |-> <<"C", "A">>]
  /\ cOut = [status |-> "ok", queries |-> 2]

====
